---- MODULE Spec2Model ----
(***************************************************************************)
(* Model of the two backtesting engines of coin_backtesting:               *)
(*   src/portfolio_backtest.py  periodic rebalancing to drifting weights   *)
(*   src/strategy_backtest.py   moving-average crossover with a ledger     *)
(* and of calculate_mdd, which both share.                                 *)
(*                                                                         *)
(* Floating-point values are modelled as exact rationals <<n, d>>, d > 0,  *)
(* in lowest terms; <<0, 0>> is NaN, which every arithmetic operator       *)
(* propagates as numpy does.  Dates are day numbers; the calendar has      *)
(* months of MonthLen days, and a date is the first day of a month when    *)
(* it is a multiple of MonthLen.                                           *)
(***************************************************************************)
EXTENDS Integers, Sequences, FiniteSets, TLC

\* ------------------------------------------------------------- bounds
\* Number of dates in the daily calendar of the rebalancing engine.
NDays == 4
\* Days per month of the model calendar.
MonthLen == 2
\* The runs made on one backtester: the first run and one re-run of the
\* pipeline on the same object.
Runs == {1, 2}

\* Close prices a bar may carry.
Prices == {1, 2}

\* ---------------------------------------------------------- rationals
NaN == <<0, 0>>

IsNaN(x) == x[2] = 0

Abs(n) == IF n < 0 THEN -n ELSE n

RECURSIVE GCD(_, _)
GCD(a, b) == IF b = 0 THEN a ELSE GCD(b, a % b)

Norm(n, d) ==
    IF d = 0 THEN NaN
    ELSE IF n = 0 THEN <<0, 1>>
    ELSE LET s == IF d < 0 THEN -1 ELSE 1
             g == GCD(Abs(n), Abs(d))
         IN  <<(s * n) \div g, (s * d) \div g>>

R(n) == <<n, 1>>

RMul(x, y) ==
    IF IsNaN(x) \/ IsNaN(y) THEN NaN
    ELSE LET a == Norm(x[1], y[2])
             b == Norm(y[1], x[2])
         IN  Norm(a[1] * b[1], a[2] * b[2])

RAdd(x, y) ==
    IF IsNaN(x) \/ IsNaN(y) THEN NaN
    ELSE LET g == GCD(x[2], y[2])
         IN  Norm(x[1] * (y[2] \div g) + y[1] * (x[2] \div g),
                  (x[2] \div g) * y[2])

RNeg(x) == IF IsNaN(x) THEN NaN ELSE <<-x[1], x[2]>>

RSub(x, y) == RAdd(x, RNeg(y))

\* x / y; a zero divisor gives NaN (0/0) or an infinity, neither a number.
RDiv(x, y) ==
    IF IsNaN(x) \/ IsNaN(y) \/ y[1] = 0 THEN NaN
    ELSE RMul(x, Norm(y[2], y[1]))

\* Comparisons with NaN are false, as in numpy.
RLess(x, y) == ~IsNaN(x) /\ ~IsNaN(y) /\ x[1] * y[2] < y[1] * x[2]

RLeq(x, y) == ~IsNaN(x) /\ ~IsNaN(y) /\ x[1] * y[2] <= y[1] * x[2]

RECURSIVE RSum(_, _)
\* sum(f[s] for s in seq), Python's sum starting from 0.
RSum(f, seq) ==
    IF seq = <<>> THEN R(0)
    ELSE RAdd(RSum(f, SubSeq(seq, 1, Len(seq) - 1)), f[seq[Len(seq)]])

\* --------------------------------------------------------------- state
VARIABLES
    pc,            \* position in the pipeline
    symbols,       \* self.symbols, the ordered universe
    start_date,    \* self.start_date, a day number
    timeframe,     \* self.timeframe: "1d" daily bars, "1M" one bar per month
    weights,       \* self.weights: symbol -> weight
    fetched,       \* keys of self.data
    data,          \* self.data[symbol]["close"] per calendar index, NaN: no bar
    Portfolio_Return, \* portfolio_df["Portfolio_Return"], by calendar index
    Portfolio_Value,  \* portfolio_df["Portfolio_Value"], by calendar index
    i,             \* loop index of run_backtest
    w0,            \* history: weights when calculate_portfolio_returns ran
    rebalanced,    \* history: dates of this run at which weights were recomputed
    skipped,       \* history: dates of this run whose iteration hit `continue`
    results,       \* history: the value column each finished run returned
    \* strategy engine (in it data[symbol] is the frame's sequence of rows)
    positions,     \* self.positions: symbol -> quantity held
    portfolio_value,   \* the local cash pool of run_backtest
    daily_value,       \* the local sum of position values of the date
    portfolio_history, \* the local list of [date, value]
    di,            \* position of the date loop in data[symbols[0]].index
    si,            \* position of the symbol loop in symbols
    ledger,        \* history: what each (date, symbol) iteration of the run did
    \* calculate_mdd
    values,        \* portfolio_df["Portfolio_Value"] handed to calculate_mdd
    mdd            \* what calculate_mdd returned

rebalance_vars == <<start_date, timeframe, weights, Portfolio_Return,
                    Portfolio_Value, i, w0, rebalanced, skipped>>

strategy_vars == <<positions, portfolio_value, daily_value, portfolio_history,
                   di, si, ledger>>

mdd_vars == <<values, mdd>>

vars == <<pc, symbols, fetched, data, results, rebalance_vars, strategy_vars,
          mdd_vars>>

Symbols == {symbols[k] : k \in 1..Len(symbols)}

initial_balance == R(10000)

trading_fee == <<1, 1000>>

slippage == <<5, 10000>>

\* Calendar indices 0 .. NDays-1; index k is date start_date + k.
Idx == 0..(NDays - 1)

DateOf(k) == start_date + k

end_date == start_date + NDays - 1

\* The labels resample would give had __init__ not replaced "M" by "MS":
\* the last day of every month.
rebalance_dates_month_end ==
    {(m + 1) * MonthLen - 1 :
        m \in (start_date \div MonthLen)..(end_date \div MonthLen)}

\* portfolio_df.resample("MS").first().index: the month-start label of every
\* month from the month of the first date to the month of the last date.
rebalance_dates ==
    {m * MonthLen : m \in (start_date \div MonthLen)..(end_date \div MonthLen)}

\* Latest index j <= k with a bar in df, or -1.
RECURSIVE LastBar(_, _)
LastBar(df, k) ==
    IF k < 0 THEN -1
    ELSE IF ~IsNaN(df[k]) THEN k
    ELSE LastBar(df, k - 1)

\* df["close"].reindex(portfolio_df.index).ffill() at index k.
FFill(df, k) ==
    LET j == LastBar(df, k) IN IF j < 0 THEN NaN ELSE df[j]

\* df["close"].pct_change() joined on the calendar, then fillna(0).
SymbolReturn(df, k) ==
    IF IsNaN(df[k]) THEN R(0)
    ELSE LET j == LastBar(df, k - 1)
         IN  IF j < 0 THEN R(0) ELSE RSub(RDiv(df[k], df[j]), R(1))

\* sum(return[s][k] * w[s] for s in symbols)
BlendedReturn(w, k) ==
    RSum([s \in Symbols |-> RMul(SymbolReturn(data[s], k), w[s])], symbols)

\* The weight maps a backtester is configured with.
WeightMaps ==
    { [s \in Symbols |-> IF s = "A" THEN <<1, 2>> ELSE <<1, 2>>],
      [s \in Symbols |-> IF s = "A" THEN <<1, 4>> ELSE <<3, 4>>] }

\* Calendar indices at which the exchange has a bar of the given timeframe:
\* every day, or the first day of each month.
BarIdx(tf) ==
    IF tf = "1d" THEN Idx ELSE {k \in Idx : DateOf(k) % MonthLen = 0}

\* The close columns one symbol's retrieval can store: a price at every bar
\* index from the symbol's first bar on, NaN (no row) elsewhere.
CloseColumns(tf) ==
    {c \in [Idx -> {NaN} \cup {R(p) : p \in Prices}] :
        \E first \in 0..NDays :
            \A k \in Idx : IsNaN(c[k]) <=> (k < first \/ k \notin BarIdx(tf))}

NoBars == [k \in Idx |-> NaN]

\* Values of the variables an engine does not use.
IdleStrategy ==
    /\ positions = <<>>
    /\ portfolio_value = R(0)
    /\ daily_value = R(0)
    /\ portfolio_history = <<>>
    /\ di = 0
    /\ si = 0
    /\ ledger = <<>>

IdleMdd ==
    /\ values = <<>>
    /\ mdd = R(0)

InitRebalance ==
    /\ pc = "new"
    /\ symbols = <<"A", "B">>
    /\ IdleStrategy
    /\ IdleMdd
    /\ start_date \in 0..(MonthLen - 1)
    /\ timeframe \in {"1d", "1M"}
    /\ weights \in WeightMaps
    /\ fetched = {}
    /\ data = [s \in Symbols |-> NoBars]
    /\ Portfolio_Return = [k \in Idx |-> R(0)]
    /\ Portfolio_Value = [k \in Idx |-> R(0)]
    /\ i = 0
    /\ w0 = weights
    /\ rebalanced = {}
    /\ skipped = {}
    /\ results = <<>>

\* fetch_data: each symbol's retrieval succeeds, storing its bars within
\* [start_date, end_date], or raises and leaves the symbol out of self.data.
FetchData ==
    /\ pc = "new"
    /\ \E ok \in SUBSET Symbols :
       \E cols \in [Symbols -> CloseColumns(timeframe)] :
          /\ \A s \in Symbols \ ok : cols[s] = NoBars
          /\ fetched' = ok
          /\ data' = cols
    /\ pc' = "fetched"
    /\ UNCHANGED <<start_date, timeframe, weights, Portfolio_Return, Portfolio_Value, i,
                   w0, rebalanced, skipped, results>>
    /\ UNCHANGED <<symbols, strategy_vars, mdd_vars>>

\* all(...) in place of any(...).
AllPricesMissing(current_prices) ==
    \A s \in Symbols : IsNaN(current_prices[s])

\* any(np.isnan(price) for price in current_prices.values())
AnyPriceMissing(current_prices) ==
    \E s \in Symbols : IsNaN(current_prices[s])

\* The return recomputed from the weight map of the moment.
DailyReturnLive(k) == BlendedReturn(weights, k)

\* daily_return = portfolio_df.iloc[i]["Portfolio_Return"]
DailyReturn(k) == Portfolio_Return[k]

\* The weights after lines 95-97.
NewWeights(current_prices, w) ==
    LET total_value ==
            RSum([s \in Symbols |-> RMul(current_prices[s], w[s])], symbols)
    IN  [s \in Symbols |-> RDiv(RMul(current_prices[s], w[s]), total_value)]

\* run_backtest up to its loop: calculate_portfolio_returns reads
\* self.data[symbol] for every symbol (KeyError when one is absent), blends
\* the returns with the weights of that moment, and the value column is
\* filled with initial_balance.
RunBacktestBegin ==
    /\ pc \in {"fetched", "done"}
    /\ Len(results) + 1 \in Runs
    /\ IF fetched # Symbols
       THEN /\ pc' = "error"
            /\ UNCHANGED <<Portfolio_Return, Portfolio_Value, i, w0,
                           rebalanced, skipped>>
       ELSE /\ pc' = "loop"
            /\ Portfolio_Return' = [k \in Idx |-> BlendedReturn(weights, k)]
            /\ Portfolio_Value' = [k \in Idx |-> initial_balance]
            /\ i' = 1
            /\ w0' = weights
            /\ rebalanced' = {}
            /\ skipped' = {}
    /\ UNCHANGED <<start_date, timeframe, weights, fetched, data, results>>
    /\ UNCHANGED <<symbols, strategy_vars, mdd_vars>>

\* One iteration of the loop of run_backtest, lines 86-99.
RunBacktestIter ==
    /\ pc = "loop"
    /\ i < NDays
    /\ LET date == DateOf(i)
           daily_return == DailyReturn(i)
           current_prices == [s \in Symbols |-> FFill(data[s], i)]
           value == RMul(Portfolio_Value[i - 1], RAdd(R(1), daily_return))
       IN  IF date \in rebalance_dates /\ AnyPriceMissing(current_prices)
           THEN /\ skipped' = skipped \cup {date}
                /\ UNCHANGED <<weights, Portfolio_Value, rebalanced>>
           ELSE /\ IF date \in rebalance_dates
                   THEN /\ weights' = NewWeights(current_prices, weights)
                        /\ rebalanced' = rebalanced \cup {date}
                   ELSE UNCHANGED <<weights, rebalanced>>
                /\ Portfolio_Value' = [Portfolio_Value EXCEPT ![i] = value]
                /\ UNCHANGED skipped
    /\ i' = i + 1
    /\ UNCHANGED <<pc, start_date, timeframe, fetched, data, Portfolio_Return, w0, results>>
    /\ UNCHANGED <<symbols, strategy_vars, mdd_vars>>

\* apply_trading_fees, and the return of run_backtest.
RunBacktestEnd ==
    /\ pc = "loop"
    /\ i = NDays
    /\ Portfolio_Value' =
          [k \in Idx |->
              RSub(Portfolio_Value[k],
                   RMul(RAdd(trading_fee, slippage), Portfolio_Value[k]))]
    /\ results' = Append(results, Portfolio_Value')
    /\ pc' = "done"
    /\ UNCHANGED <<start_date, timeframe, weights, fetched, data, Portfolio_Return, i,
                   w0, rebalanced, skipped>>
    /\ UNCHANGED <<symbols, strategy_vars, mdd_vars>>

NextRebalance ==
    \/ FetchData
    \/ RunBacktestBegin
    \/ RunBacktestIter
    \/ RunBacktestEnd

SpecRebalance == InitRebalance /\ [][NextRebalance]_vars

\* ------------------------------------- rebalancing engine: properties
CalendarDates == {DateOf(k) : k \in Idx}

\* The step about to run is the iteration of a rebalance date at which some
\* tracked symbol has no forward-filled price.
AtUnpricedRebalanceDate ==
    /\ pc = "loop"
    /\ i < NDays
    /\ DateOf(i) \in rebalance_dates
    /\ \E s \in Symbols : IsNaN(FFill(data[s], i))

\* C2: for every date after the first, ordinary, rebalanced or skipped, the
\* pre-cost value is V[t] = V[t-1] * (1 + PortfolioReturn[t]), and
\* V[first] = initial_balance.
C2_ValueRecurrence ==
    pc = "loop" =>
        /\ Portfolio_Value[0] = initial_balance
        /\ \A k \in 1..(i - 1) :
              Portfolio_Value[k] =
                  RMul(Portfolio_Value[k - 1], RAdd(R(1), Portfolio_Return[k]))

\* C3: on a rebalance date where some tracked symbol's forward-filled price
\* is NaN, every weight after the date equals the weight before it, and no
\* error is raised.
C3_SkipKeepsWeights ==
    [][AtUnpricedRebalanceDate => (weights' = weights /\ pc' # "error")]_vars

C3_Witness ==
    /\ pc = "loop"
    /\ skipped # {}
    /\ rebalanced # {}

\* C4: with weights {A: 1/2, B: 1/2} before a rebalance event at which A's
\* price is twice its price of the previous date and B's is unchanged, the
\* weights after the event are {A: 2/3, B: 1/3}, whatever the price levels.
C4_DoubledPriceGivesTwoThirds ==
    [][(/\ pc = "loop"
        /\ i < NDays
        /\ DateOf(i) \in rebalance_dates
        /\ weights = [s \in Symbols |-> <<1, 2>>]
        /\ ~IsNaN(FFill(data["A"], i - 1))
        /\ ~IsNaN(FFill(data["B"], i - 1))
        /\ FFill(data["A"], i) = RMul(R(2), FFill(data["A"], i - 1))
        /\ FFill(data["B"], i) = FFill(data["B"], i - 1))
       => weights' = [s \in Symbols |-> IF s = "A" THEN <<2, 3>> ELSE <<1, 3>>]
      ]_vars

\* C5: when retrieval fails for one symbol and succeeds for another, the
\* simulation still completes: the run does not abort with an error.
C5_PartialDataCompletes ==
    (fetched # {} /\ fetched # Symbols) => pc # "error"

\* C6: a second run_backtest on the same backtester returns exactly the
\* value sequence the first run returned.
C6_SecondRunIdentical ==
    Len(results) >= 2 => results[2] = results[1]

\* C9: within one run, every PortfolioReturn[t] is the blend of the symbol
\* returns with the weights as they were when calculate_portfolio_returns
\* ran, and every accumulated V[t] uses that return, whatever the weights
\* have become since.
C9_ReturnsUseUpfrontWeights ==
    pc = "loop" =>
        /\ \A k \in Idx : Portfolio_Return[k] = BlendedReturn(w0, k)
        /\ \A k \in 1..(i - 1) :
              DateOf(k) \notin skipped =>
                  Portfolio_Value[k] =
                      RMul(Portfolio_Value[k - 1],
                           RAdd(R(1), BlendedReturn(w0, k)))

C9_Witness ==
    /\ pc = "loop"
    /\ weights # w0
    /\ \E k \in 1..(i - 1) :
          /\ \E d \in rebalanced : d < DateOf(k)
          /\ Portfolio_Return[k] # BlendedReturn(weights, k)

\* Every symbol has a forward-filled price at every date of the calendar.
PricesAvailable ==
    \A s \in Symbols : \A k \in Idx : ~IsNaN(FFill(data[s], k))

\* C10 as stated: with all prices available the weight map is recomputed
\* exactly on the first date of the calendar and on the first calendar date
\* of each subsequent month.
C10_RecomputedOnFirstDateAndMonthStarts ==
    (pc = "done" /\ PricesAvailable) =>
        rebalanced =
            {DateOf(0)} \cup
            {d \in CalendarDates : d > DateOf(0) /\ d % MonthLen = 0}

\* C10 amended: with all prices available the weight map is recomputed
\* exactly on the calendar dates after the first date that are the first day
\* of a month; the first date of the calendar is never one of them.
C10_RecomputedOnLaterMonthStarts ==
    (pc \in {"loop", "done"} /\ PricesAvailable) =>
        rebalanced =
            {DateOf(k) : k \in {j \in 1..(i - 1) : DateOf(j) % MonthLen = 0}}

C10_Witness ==
    /\ pc = "done"
    /\ PricesAvailable
    /\ start_date % MonthLen # 0
    /\ Cardinality(rebalanced) >= 2

\* --------------------------------------------------- strategy engine
\* Number of dates on which an exchange bar may exist.
NBars == 4
\* self.short_window and self.long_window, in rows.
ShortWindow == 1
LongWindow == 2
strategy_trading_fee == <<1, 10>>

\* Close prices of the bars: three levels in a one-symbol universe, two in
\* a larger one.
StrategyPrices(n) == IF n = 1 THEN {1, 2, 3} ELSE {1, 2}

\* A frame as fetch_data stores it: one row per day from the symbol's first
\* bar to the last date, with no Signal column yet.
Frames(n) ==
    UNION { { [j \in 1..(NBars - first) |->
                 [date |-> first + j - 1, close |-> R(f[first + j - 1]),
                  Signal |-> 0]] :
              f \in [first..(NBars - 1) -> StrategyPrices(n)] } :
            first \in 0..NBars }

InitStrategy ==
    /\ pc = "new"
    /\ symbols \in {<<"A">>, <<"A", "B">>}
    /\ fetched = {}
    /\ data = [s \in Symbols |-> <<>>]
    /\ results = <<>>
    /\ positions = [s \in Symbols |-> R(0)]
    /\ portfolio_value = initial_balance
    /\ daily_value = R(0)
    /\ portfolio_history = <<>>
    /\ di = 0
    /\ si = 0
    /\ ledger = <<>>
    /\ start_date = 0
    /\ timeframe = "1d"
    /\ weights = <<>>
    /\ Portfolio_Return = <<>>
    /\ Portfolio_Value = <<>>
    /\ i = 0
    /\ w0 = <<>>
    /\ rebalanced = {}
    /\ skipped = {}
    /\ IdleMdd

\* fetch_data of the strategy engine: per symbol the frame is stored, or
\* the retrieval raises and the symbol stays out of self.data.
StrategyFetchData ==
    /\ pc = "new"
    /\ \E ok \in SUBSET Symbols :
       \E frames \in [Symbols -> Frames(Len(symbols))] :
          /\ \A s \in Symbols \ ok : frames[s] = <<>>
          /\ fetched' = ok
          /\ data' = frames
    /\ pc' = "fetched"
    /\ UNCHANGED <<symbols, results, rebalance_vars, strategy_vars, mdd_vars>>

RECURSIVE CloseSum(_, _, _)
\* Sum of the closes of the n rows of df ending at row j.
CloseSum(df, j, n) ==
    IF n = 0 THEN R(0) ELSE RAdd(CloseSum(df, j - 1, n - 1), df[j].close)

\* df["close"].rolling(window).mean() at row j; NaN on the first window-1 rows.
SMA(df, j, window) ==
    IF j < window THEN NaN ELSE RDiv(CloseSum(df, j, window), R(window))

\* Lines 54-56.
SignalOf(SMA_short, SMA_long) ==
    IF RLess(SMA_long, SMA_short) THEN 1
    ELSE IF RLess(SMA_short, SMA_long) THEN -1
    ELSE 0

\* The body of the loop of apply_strategy on one frame: the rows where
\* either average is NaN are dropped, the others get their Signal.
StrategyFrame(df) ==
    LET keep == SelectSeq([j \in 1..Len(df) |-> j],
                          LAMBDA j : /\ ~IsNaN(SMA(df, j, ShortWindow))
                                     /\ ~IsNaN(SMA(df, j, LongWindow)))
    IN  [r \in 1..Len(keep) |->
            [date |-> df[keep[r]].date,
             close |-> df[keep[r]].close,
             Signal |-> SignalOf(SMA(df, keep[r], ShortWindow),
                                 SMA(df, keep[r], LongWindow))]]

\* Position in symbols of the first symbol missing from self.data, or
\* Len(symbols) + 1.
RECURSIVE FirstMissing(_)
FirstMissing(k) ==
    IF k > Len(symbols) THEN k
    ELSE IF symbols[k] \notin fetched THEN k
    ELSE FirstMissing(k + 1)

\* apply_strategy: frames are rewritten in symbol order; self.data[symbol]
\* raises KeyError at the first symbol that was not fetched.
ApplyStrategy ==
    /\ pc \in {"fetched", "done"}
    /\ Len(results) + 1 \in Runs
    /\ LET stop == FirstMissing(1)
       IN  /\ data' = [s \in Symbols |->
                         IF \E k \in 1..(stop - 1) : symbols[k] = s
                         THEN StrategyFrame(data[s]) ELSE data[s]]
           /\ pc' = IF stop <= Len(symbols) THEN "error" ELSE "applied"
    /\ UNCHANGED <<symbols, fetched, results, rebalance_vars, strategy_vars,
                   mdd_vars>>

\* Lines 63-64.
StrategyRunBegin ==
    /\ pc = "applied"
    /\ portfolio_value' = initial_balance
    /\ portfolio_history' = <<>>
    /\ daily_value' = R(0)
    /\ di' = 1
    /\ si' = 1
    /\ ledger' = <<>>
    /\ pc' = "run"
    /\ UNCHANGED <<symbols, fetched, data, results, positions, rebalance_vars,
                   mdd_vars>>

\* date in self.data[symbol].index
HasRow(df, date) == \E j \in 1..Len(df) : df[j].date = date

\* self.data[symbol].loc[date]
RowAt(df, date) == df[CHOOSE j \in 1..Len(df) : df[j].date = date]

\* Line 75 without its test of the position.
IsBuyAnyPosition(signal, position) == signal = 1

\* Line 75.
IsBuy(signal, position) == signal = 1 /\ position = R(0)

\* Line 79.
IsSell(signal, position) == signal = -1 /\ RLess(R(0), position)

\* One iteration of the inner loop, lines 68-84, and after the last symbol
\* of the date the append of line 86.
StrategyRunStep ==
    /\ pc = "run"
    /\ di <= Len(data[symbols[1]])
    /\ LET date == data[symbols[1]][di].date
           symbol == symbols[si]
           n == R(Len(symbols))
           present == HasRow(data[symbol], date)
           row == RowAt(data[symbol], date)
           buy == present /\ IsBuy(row.Signal, positions[symbol])
           sell == present /\ IsSell(row.Signal, positions[symbol])
           proceeds == RMul(positions[symbol], row.close)
           quantity ==
               IF buy THEN RDiv(RDiv(portfolio_value, n), row.close)
               ELSE IF sell THEN R(0)
               ELSE positions[symbol]
           cash ==
               IF buy
               THEN RSub(portfolio_value,
                         RMul(RDiv(portfolio_value, n), strategy_trading_fee))
               ELSE IF sell
               THEN RSub(RAdd(portfolio_value, proceeds),
                         RMul(proceeds, strategy_trading_fee))
               ELSE portfolio_value
           held ==
               IF present THEN RAdd(daily_value, RMul(quantity, row.close))
               ELSE daily_value
       IN  /\ positions' = [positions EXCEPT ![symbol] = quantity]
           /\ portfolio_value' = cash
           /\ ledger' = Append(ledger,
                  [date |-> date, symbol |-> symbol,
                   kind |-> IF ~present THEN "missing"
                            ELSE IF buy THEN "buy"
                            ELSE IF sell THEN "sell" ELSE "none",
                   Signal |-> IF present THEN row.Signal ELSE 0,
                   close |-> IF present THEN row.close ELSE NaN,
                   before |-> positions[symbol]])
           /\ IF si = Len(symbols)
              THEN /\ portfolio_history' =
                         Append(portfolio_history,
                                [date |-> date, value |-> RAdd(cash, held)])
                   /\ daily_value' = R(0)
                   /\ di' = di + 1
                   /\ si' = 1
              ELSE /\ daily_value' = held
                   /\ si' = si + 1
                   /\ UNCHANGED <<portfolio_history, di>>
    /\ UNCHANGED <<pc, symbols, fetched, data, results, rebalance_vars,
                   mdd_vars>>

\* Lines 88-91.
StrategyRunEnd ==
    /\ pc = "run"
    /\ di > Len(data[symbols[1]])
    /\ results' = Append(results, portfolio_history)
    /\ pc' = "done"
    /\ UNCHANGED <<symbols, fetched, data, rebalance_vars, strategy_vars,
                   mdd_vars>>

NextStrategy ==
    \/ StrategyFetchData
    \/ ApplyStrategy
    \/ StrategyRunBegin
    \/ StrategyRunStep
    \/ StrategyRunEnd

SpecStrategy == InitStrategy /\ [][NextStrategy]_vars

\* ---------------------------------------- strategy engine: properties
\* The buys and sells of the run so far, in order.
Trades == SelectSeq(ledger, LAMBDA e : e.kind \in {"buy", "sell"})

\* The last recorded [date, value].
LastRecord == portfolio_history[Len(portfolio_history)]

\* C1: one-symbol universe, starting flat with cash pool B and fee rate f:
\* after a Buy executed at close p and, on a later date, a Sell executed at
\* the same close p, the value recorded for the date of the Sell is
\* B * (1 - f) * (1 - f).
C1_RoundTripValue ==
    (/\ pc = "run"
     /\ Len(symbols) = 1
     /\ Len(results) = 0
     /\ Len(Trades) = 2
     /\ Trades[1].kind = "buy"
     /\ Trades[2].kind = "sell"
     /\ Trades[1].close = Trades[2].close
     /\ Trades[1].date < Trades[2].date
     /\ portfolio_history # <<>>
     /\ LastRecord.date = Trades[2].date)
    => LastRecord.value =
          RMul(initial_balance,
               RMul(RSub(R(1), strategy_trading_fee),
                    RSub(R(1), strategy_trading_fee)))

\* The step about to run is an iteration of the inner loop of run_backtest.
AtLedgerStep == pc = "run" /\ di <= Len(data[symbols[1]])

\* C8: per symbol, the position changes only Flat -> Long (Buy while the
\* position is 0) and Long -> Flat (Sell while it is positive); every other
\* combination (Hold, Buy while long, Sell while flat, no row for the date)
\* leaves positions and cash pool unchanged; no position is ever negative.
C8_LedgerTransitions ==
    [][/\ \A s \in Symbols : RLeq(R(0), positions'[s])
       /\ IF AtLedgerStep
          THEN LET date == data[symbols[1]][di].date
                   symbol == symbols[si]
                   present == \E j \in 1..Len(data[symbol]) :
                                 data[symbol][j].date = date
                   signal == (CHOOSE r \in {data[symbol][j] :
                                              j \in 1..Len(data[symbol])} :
                                 r.date = date).Signal
                   flat == positions[symbol] = R(0)
                   long == RLess(R(0), positions[symbol])
               IN  /\ \A s \in Symbols \ {symbol} :
                          positions'[s] = positions[s]
                   /\ IF present /\ signal = 1 /\ flat
                      THEN RLess(R(0), positions'[symbol])
                      ELSE IF present /\ signal = -1 /\ long
                      THEN positions'[symbol] = R(0)
                      ELSE /\ positions' = positions
                           /\ portfolio_value' = portfolio_value
          ELSE positions' = positions
      ]_vars

C8_Witness ==
    /\ pc = "run"
    /\ \E e \in {ledger[k] : k \in 1..Len(ledger)} : e.kind = "buy"
    /\ \E e \in {ledger[k] : k \in 1..Len(ledger)} : e.kind = "sell"
    /\ \E e \in {ledger[k] : k \in 1..Len(ledger)} : e.kind = "missing"
    /\ \E e \in {ledger[k] : k \in 1..Len(ledger)} :
          e.kind = "none" /\ e.Signal # 0

\* ------------------------------------------------------ calculate_mdd
\* Longest value series handed to calculate_mdd, and its largest value.
MaxLen == 4
MaxValue == 3

RMax(x, y) == IF RLess(x, y) THEN y ELSE x

RMin(x, y) == IF RLess(y, x) THEN y ELSE x

RECURSIVE SeriesMax(_, _)
\* The largest of the first k values: portfolio_df["Portfolio_Value"].cummax()
\* at row k.
SeriesMax(pv, k) ==
    IF k = 1 THEN pv[1] ELSE RMax(SeriesMax(pv, k - 1), pv[k])

\* .max() in place of .cummax(): the peak of the whole series.
WholeSeriesPeak(pv, k) == SeriesMax(pv, Len(pv))

\* peak at row k, line 108.
Peak(pv, k) == SeriesMax(pv, k)

\* drawdown at row k, line 109.
Drawdown(pv, k) == RDiv(RSub(pv[k], Peak(pv, k)), Peak(pv, k))

RECURSIVE DrawdownMin(_, _)
\* drawdown.min() over the first k rows.
DrawdownMin(pv, k) ==
    IF k = 1 THEN Drawdown(pv, 1)
    ELSE RMin(DrawdownMin(pv, k - 1), Drawdown(pv, k))

\* Lines 104-110 (and lines 93-99 of the strategy engine, the same code).
calculate_mdd(pv) == RMul(DrawdownMin(pv, Len(pv)), R(100))

InitMdd ==
    /\ pc = "mdd"
    /\ values \in UNION { [1..n -> {R(v) : v \in 1..MaxValue}] : n \in 1..MaxLen }
    /\ mdd = R(0)
    /\ symbols = <<>>
    /\ fetched = {}
    /\ data = <<>>
    /\ results = <<>>
    /\ start_date = 0
    /\ timeframe = "1d"
    /\ weights = <<>>
    /\ Portfolio_Return = <<>>
    /\ Portfolio_Value = <<>>
    /\ i = 0
    /\ w0 = <<>>
    /\ rebalanced = {}
    /\ skipped = {}
    /\ IdleStrategy

CalculateMdd ==
    /\ pc = "mdd"
    /\ mdd' = calculate_mdd(values)
    /\ pc' = "mdd_done"
    /\ UNCHANGED <<symbols, fetched, data, results, values, rebalance_vars,
                   strategy_vars>>

NextMdd == CalculateMdd

SpecMdd == InitMdd /\ [][NextMdd]_vars

NonDecreasing(pv) == \A k \in 1..(Len(pv) - 1) : RLeq(pv[k], pv[k + 1])

\* C7: for every non-empty series of positive values the maximum drawdown
\* is <= 0, and it is 0 when the series never decreases.
C7_MddNonPositive ==
    pc = "mdd_done" =>
        /\ RLeq(mdd, R(0))
        /\ NonDecreasing(values) => mdd = R(0)

C7_Witness ==
    /\ pc = "mdd_done"
    /\ Len(values) >= 3
    /\ NonDecreasing(values)
    /\ RLess(values[1], values[Len(values)])

====
